---- MODULE Spec2Model ----
(***************************************************************************)
(* Model of Folder Automation/create_folders.py: FolderCreator replicates  *)
(* a template folder tree of a remote drive under a new client folder.     *)
(* Names and messages are sequences of string tokens, so that the f-string *)
(* concatenations of the source are sequence concatenations here.          *)
(***************************************************************************)
EXTENDS Integers, Sequences, FiniteSets, TLC

VARIABLES tpl, config, pc, org, main, stack, drive, nextId, calls, results, runs

vars == <<tpl, config, pc, org, main, stack, drive, nextId, calls, results, runs>>

(* ------------------------------ bounds --------------------------------- *)

\* Largest number of nodes below the template folder.
MaxNodes == 3
\* Largest number of nodes below the template folder when the script is run repeatedly.
MaxNodesRepeat == 1
\* Number of items the remote listing returns in its first page (the Drive
\* default is 100; scaled down so that a folder can have more children than a page).
PageSize == 2
\* Number of times the script is run in SpecRepeat.
MaxRuns == 2
(* --------------------------- configuration ----------------------------- *)

FOLDER_MIME == "application/vnd.google-apps.folder"
FILE_MIME == "application/octet-stream"

\* A complete config.json (both sections flattened into one key space).
FullConfig ==
    [ destination_folder_id   |-> 0,
      template_folder_id      |-> 1,
      main_folder_suffix      |-> <<" - Client Folder">>,
      user_list_original_name |-> <<"Authorized Users.xlsx">>,
      user_list_suffix        |-> <<" - Authorized Users.xlsx">> ]

Keys == DOMAIN FullConfig

\* json.load returns whatever the file holds: any setting may be absent.
LoadConfig(missing) == [k \in Keys \ missing |-> FullConfig[k]]

\* The complete file, and the files that lack one setting.
Configs == {LoadConfig(m) : m \in {{}} \cup {{k} : k \in Keys}}

\* sys.argv[1]
Orgs == {<<"Acme">>, <<"Globex">>}

Names == {<<"Authorized Users.xlsx">>, <<"ReadMe.txt">>}

(* --------------------------- template tree ----------------------------- *)

\* The template folder itself, as the drive knows it.
TemplateFolderId == FullConfig.template_folder_id

\* Node k of a template t has identifier TemplateFolderId + k.
NodeId(k) == TemplateFolderId + k

\* Folders of t that can hold a further node: the template folder and every
\* folder below it that is not in the trash.
ParentsOf(t) ==
    {TemplateFolderId} \cup
    {NodeId(k) : k \in {j \in 1..Len(t) : t[j].mimeType = FOLDER_MIME /\ ~t[j].trashed}}

RECURSIVE Templates(_)
Templates(n) ==
    IF n = 0 THEN {<<>>}
    ELSE LET smaller == Templates(n - 1)
         IN  smaller \cup
             UNION {{Append(t, [parent |-> p, mimeType |-> m, name |-> nm, trashed |-> tr]) :
                        p \in ParentsOf(t), m \in {FOLDER_MIME, FILE_MIME},
                        nm \in Names, tr \in BOOLEAN} :
                    t \in {s \in smaller : Len(s) = n - 1}}

(* --------------------------- remote service ---------------------------- *)

Min(a, b) == IF a <= b THEN a ELSE b

\* files().list(q="'<folder_id>' in parents and trashed=false").execute():
\* the first page of the matching items; the response's nextPageToken is not
\* part of what the caller reads.
RemoteList(t, folder_id) ==
    LET matching == SelectSeq([k \in 1..Len(t) |-> k],
                              LAMBDA k : t[k].parent = folder_id /\ ~t[k].trashed)
        page     == SubSeq(matching, 1, Min(Len(matching), PageSize))
    IN  [i \in 1..Len(page) |->
            [id |-> NodeId(page[i]), name |-> t[page[i]].name, mimeType |-> t[page[i]].mimeType]]

\* str(e) of the exception a failing request raises: with or without the
\* request's URI (which holds the identifiers in uriIds).
Causes(uriIds) ==
    { <<"insufficientPermissions">>,
      <<"HttpError", "403", "when", "requesting">> \o [i \in 1..Len(uriIds) |-> ToString(uriIds[i])] }

(* ------------------------- FolderCreator helpers ----------------------- *)

CreateFolderError(name, cause) == <<"Failed", "to", "create", "folder">> \o name \o cause

CopyFileError(new_name, cause) == <<"Failed", "to", "copy", "file">> \o new_name \o cause

ListError(cause) == <<"Failed", "to", "list", "folder", "contents:">> \o cause

\* str(KeyError(key))
KeyError(key) == <<key>>

\* list_folder_contents: partition of the listing by mimeType.
ListFiles(t, folder_id) == SelectSeq(RemoteList(t, folder_id), LAMBDA it : it.mimeType # FOLDER_MIME)

ListFolders(t, folder_id) == SelectSeq(RemoteList(t, folder_id), LAMBDA it : it.mimeType = FOLDER_MIME)

\* (mutant) the special handling of the user list is left out.
NewNameUnchanged(file_name, company_name, cfg) == file_name

\* The name a file is copied under.
NewName(file_name, company_name, cfg) ==
    IF file_name = cfg["user_list_original_name"]
    THEN company_name \o cfg["user_list_suffix"]
    ELSE file_name

\* (mutant) the special handling of the user list is applied to folders too.
SubfolderNameRenamed(folder_item) == NewName(folder_item.name, org, FullConfig)

\* The name a subfolder is created under.
SubfolderName(folder_item) == folder_item.name

\* (mutant) a folder of that name under parent_id is reused when there is one.
CreateFolderReusing(name, parent_id) ==
    LET same == {d \in drive : d.name = name /\ d.parent = parent_id /\ d.mimeType = FOLDER_MIME}
    IN  IF same = {} THEN nextId ELSE (CHOOSE d \in same : TRUE).id

\* create_folder returns the identifier the service gave the new folder: one
\* that names no other object, whatever else lies under parent_id.
CreateFolder(name, parent_id) == nextId

\* (mutant) the recursion is handed the source folder as its destination.
FrameIntoSource(source_folder_id, destination_folder_id) ==
    [ src |-> source_folder_id, dst |-> source_folder_id,
      pc |-> "list", files |-> <<>>, folders |-> <<>> ]

\* The frame of the call copy_folder_contents(source_folder_id, destination_folder_id, ..).
Frame(source_folder_id, destination_folder_id) ==
    [ src |-> source_folder_id, dst |-> destination_folder_id,
      pc |-> "list", files |-> <<>>, folders |-> <<>> ]

\* A finished frame of copy_folder_contents returns to its caller.
FrameDone(f) == f.pc = "loop" /\ f.files = <<>> /\ f.folders = <<>>

\* (mutant) a finished frame never returns.
UnwindNever(s) == s

RECURSIVE Unwind(_)
Unwind(s) ==
    IF s # <<>> /\ FrameDone(s[Len(s)]) THEN Unwind(SubSeq(s, 1, Len(s) - 1)) ELSE s

Top == stack[Len(stack)]

SetTop(f) == [stack EXCEPT ![Len(stack)] = f]

Failure(error) ==
    [ success |-> FALSE, error |-> error,
      message |-> <<"Failed to create folder structure for">> \o org' ]

Success ==
    [ success |-> TRUE, folder_id |-> main.id, folder_name |-> main.name,
      folder_url |-> <<"https://drive.google.com/drive/folders/", ToString(main.id)>>,
      message |-> <<"Successfully created folder structure for">> \o org ]

\* (mutant) inside copy_folder_contents an error is logged and the loop goes on.
FailAndGoOn(error) ==
    /\ stack' = stack
    /\ IF stack = <<>>
       THEN pc' = "done" /\ results' = Append(results, Failure(error))
       ELSE pc' = "copy" /\ results' = results

\* The except clause of create_client_folder_structure.
Fail(error) ==
    /\ pc' = "done"
    /\ stack' = <<>>
    /\ results' = Append(results, Failure(error))

\* copy_folder_contents goes on, or has returned to create_client_folder_structure.
Continue(s) ==
    /\ stack' = Unwind(s)
    /\ IF Unwind(s) = <<>>
       THEN pc' = "done" /\ results' = Append(results, Success)
       ELSE pc' = "copy" /\ results' = results

(* ------------------------------ actions -------------------------------- *)

Init ==
    /\ tpl \in Templates(MaxNodes)
    /\ config \in Configs
    /\ pc = "idle"
    /\ org = <<>>
    /\ main = [id |-> 0, name |-> <<>>]
    /\ stack = <<>>
    /\ drive = {}
    /\ nextId = TemplateFolderId + MaxNodes + 1
    /\ calls = <<>>
    /\ results = <<>>
    /\ runs = 0

\* create_client_folder_structure up to its first remote call.
CreateClientFolderStructure(organization_name) ==
    /\ pc = "idle"
    /\ org' = organization_name
    /\ runs' = runs + 1
    /\ UNCHANGED <<tpl, config, drive, nextId, calls>>
    /\ IF "main_folder_suffix" \notin DOMAIN config
       THEN Fail(KeyError("main_folder_suffix")) /\ UNCHANGED main
       ELSE IF "destination_folder_id" \notin DOMAIN config
       THEN Fail(KeyError("destination_folder_id")) /\ UNCHANGED main
       ELSE IF "template_folder_id" \notin DOMAIN config
       THEN Fail(KeyError("template_folder_id")) /\ UNCHANGED main
       ELSE /\ pc' = "main"
            /\ main' = [id |-> 0, name |-> organization_name \o config["main_folder_suffix"]]
            /\ UNCHANGED <<stack, results>>

\* self.create_folder(main_folder_name, destination_folder_id)
CreateMainFolder ==
    /\ pc = "main"
    /\ UNCHANGED <<tpl, config, org, runs>>
    /\ LET parent == config["destination_folder_id"]
           call   == [run |-> runs, op |-> "create", name |-> main.name, parent |-> parent]
           main_folder_id == CreateFolder(main.name, parent)
       IN  \/ /\ calls' = Append(calls, call @@ [ok |-> TRUE, id |-> main_folder_id])
              /\ drive' = drive \cup {[id |-> main_folder_id, name |-> main.name,
                                       mimeType |-> FOLDER_MIME, parent |-> parent]}
              /\ nextId' = nextId + 1
              /\ main' = [main EXCEPT !.id = main_folder_id]
              /\ pc' = "copy"
              /\ stack' = <<Frame(config["template_folder_id"], main_folder_id)>>
              /\ UNCHANGED results
           \/ \E cause \in Causes(<<>>) :
                /\ calls' = Append(calls, call @@ [ok |-> FALSE])
                /\ Fail(CreateFolderError(main.name, cause))
                /\ UNCHANGED <<drive, nextId, main>>

\* self.list_folder_contents(source_folder_id) at the head of copy_folder_contents
ListFolderContents ==
    /\ pc = "copy"
    /\ Top.pc = "list"
    /\ UNCHANGED <<tpl, config, org, runs, drive, nextId, main>>
    /\ LET call == [run |-> runs, op |-> "list", folder |-> Top.src]
       IN  \/ /\ calls' = Append(calls, call @@ [ok |-> TRUE])
              /\ \E files \in {ListFiles(tpl, Top.src)}, folders \in {ListFolders(tpl, Top.src)} :
                   \E s \in {SetTop([Top EXCEPT !.pc = "loop", !.files = files,
                                                !.folders = folders])} : Continue(s)
           \/ \E cause \in Causes(<<Top.src>>) :
                /\ calls' = Append(calls, call @@ [ok |-> FALSE])
                /\ Fail(ListError(cause))

\* One iteration of "for file_item in files".
CopyFile ==
    /\ pc = "copy"
    /\ Top.pc = "loop"
    /\ Top.files # <<>>
    /\ UNCHANGED <<tpl, config, org, runs, main>>
    /\ LET file_item == Head(Top.files)
           file_name == file_item.name
       IN  IF "user_list_original_name" \notin DOMAIN config
           THEN Fail(KeyError("user_list_original_name")) /\ UNCHANGED <<drive, nextId, calls>>
           ELSE IF file_name = config["user_list_original_name"]
                   /\ "user_list_suffix" \notin DOMAIN config
           THEN Fail(KeyError("user_list_suffix")) /\ UNCHANGED <<drive, nextId, calls>>
           ELSE LET new_name == NewName(file_name, org, config)
                    call == [run |-> runs, op |-> "copy", file |-> file_item.id,
                             name |-> new_name, parent |-> Top.dst]
                IN  \/ /\ calls' = Append(calls, call @@ [ok |-> TRUE, id |-> nextId])
                       /\ drive' = drive \cup {[id |-> nextId, name |-> new_name,
                                                mimeType |-> FILE_MIME, parent |-> Top.dst]}
                       /\ nextId' = nextId + 1
                       /\ \E s \in {SetTop([Top EXCEPT !.files = Tail(@)])} : Continue(s)
                    \/ \E cause \in Causes(<<file_item.id>>) :
                         /\ calls' = Append(calls, call @@ [ok |-> FALSE])
                         /\ Fail(CopyFileError(new_name, cause))
                         /\ UNCHANGED <<drive, nextId>>

\* One iteration of "for folder_item in folders", up to the recursive call.
CreateSubfolder ==
    /\ pc = "copy"
    /\ Top.pc = "loop"
    /\ Top.files = <<>>
    /\ Top.folders # <<>>
    /\ UNCHANGED <<tpl, config, org, runs, main>>
    /\ LET folder_item == Head(Top.folders)
           folder_name == SubfolderName(folder_item)
           call == [run |-> runs, op |-> "create", name |-> folder_name, parent |-> Top.dst,
                    item |-> folder_item.id]
           new_subfolder_id == CreateFolder(folder_name, Top.dst)
       IN  \/ /\ calls' = Append(calls, call @@ [ok |-> TRUE, id |-> new_subfolder_id])
              /\ drive' = drive \cup {[id |-> new_subfolder_id, name |-> folder_name,
                                       mimeType |-> FOLDER_MIME, parent |-> Top.dst]}
              /\ nextId' = nextId + 1
              /\ stack' = Append(SetTop([Top EXCEPT !.folders = Tail(@)]),
                                 Frame(folder_item.id, new_subfolder_id))
              /\ UNCHANGED <<pc, results>>
           \/ \E cause \in Causes(<<>>) :
                /\ calls' = Append(calls, call @@ [ok |-> FALSE])
                /\ Fail(CreateFolderError(folder_name, cause))
                /\ UNCHANGED <<drive, nextId>>

\* The script is started again (main): a new process, the same drive.
RunAgain ==
    /\ pc = "done"
    /\ runs < MaxRuns
    /\ pc' = "idle"
    /\ UNCHANGED <<tpl, config, org, main, stack, drive, nextId, calls, results, runs>>

Next ==
    \/ \E organization_name \in Orgs : CreateClientFolderStructure(organization_name)
    \/ CreateMainFolder
    \/ ListFolderContents
    \/ CopyFile
    \/ CreateSubfolder

Spec == Init /\ [][Next]_vars

\* Largest number of nodes below the template folder in FairSpec.
MaxNodesFair == 2

InitFair ==
    /\ tpl \in Templates(MaxNodesFair)
    /\ config \in Configs
    /\ pc = "idle"
    /\ org = <<>>
    /\ main = [id |-> 0, name |-> <<>>]
    /\ stack = <<>>
    /\ drive = {}
    /\ nextId = TemplateFolderId + MaxNodes + 1
    /\ calls = <<>>
    /\ results = <<>>
    /\ runs = 0

\* Every remote call responds and the interpreter keeps running the script.
FairSpec == InitFair /\ [][Next]_vars /\ WF_vars(Next)

InitRepeat ==
    /\ tpl \in Templates(MaxNodesRepeat)
    /\ config = LoadConfig({})
    /\ pc = "idle"
    /\ org = <<>>
    /\ main = [id |-> 0, name |-> <<>>]
    /\ stack = <<>>
    /\ drive = {}
    /\ nextId = TemplateFolderId + MaxNodes + 1
    /\ calls = <<>>
    /\ results = <<>>
    /\ runs = 0

NextRepeat == Next \/ RunAgain

SpecRepeat == InitRepeat /\ [][NextRepeat]_vars

(* ----------------------- vocabulary of the claims ---------------------- *)

LastResult == results[Len(results)]

Succeeded == pc = "done" /\ results # <<>> /\ LastResult.success

Contains(msg, word) == \E i \in 1..Len(msg) : msg[i] = word

IsTemplateNode(id) == id - TemplateFolderId \in 1..Len(tpl)

TplNode(id) == tpl[id - TemplateFolderId]

\* Names on the way from the template folder down to the node id.
RECURSIVE TplPath(_)
TplPath(id) ==
    IF id = TemplateFolderId THEN <<>> ELSE Append(TplPath(TplNode(id).parent), TplNode(id).name)

DriveNode(id) == CHOOSE d \in drive : d.id = id

\* Names on the way from this run's main folder down to the created object id.
RECURSIVE DrivePath(_)
DrivePath(id) ==
    IF id = main.id THEN <<>> ELSE Append(DrivePath(DriveNode(id).parent), DriveNode(id).name)

\* Identifiers of the objects created below this run's main folder.
RECURSIVE Below(_)
Below(ids) ==
    LET more == ids \cup {d.id : d \in {e \in drive : e.parent \in ids}}
    IN  IF more = ids THEN ids ELSE Below(more)

CreatedFolders == {id \in Below({main.id}) \ {main.id} : DriveNode(id).mimeType = FOLDER_MIME}

\* Template nodes a complete listing shows: nothing in the trash.
TplFolders == {NodeId(k) : k \in {j \in 1..Len(tpl) : tpl[j].mimeType = FOLDER_MIME /\ ~tpl[j].trashed}}

TplFiles == {NodeId(k) : k \in {j \in 1..Len(tpl) : tpl[j].mimeType # FOLDER_MIME /\ ~tpl[j].trashed}}

CopyCalls == {i \in 1..Len(calls) : calls[i].op = "copy"}

SubfolderCalls == {i \in 1..Len(calls) : calls[i].op = "create" /\ "item" \in DOMAIN calls[i]}

FailedCalls == {i \in 1..Len(calls) : ~calls[i].ok}

(* ------------------------------- claims -------------------------------- *)

\* C1: after a run in which every remote call succeeded, the folders created
\* below the main folder mirror the template's folders: every relative path
\* is that of as many created folders as template folders.
C1_FolderTreeIsomorphic ==
    Succeeded =>
        /\ \A f \in TplFolders :
             Cardinality({d \in CreatedFolders : DrivePath(d) = TplPath(f)})
               = Cardinality({g \in TplFolders : TplPath(g) = TplPath(f)})
        /\ \A d \in CreatedFolders : \E f \in TplFolders : TplPath(f) = DrivePath(d)

\* C2: every copy-file call names the copy <organization><user_list_suffix>
\* when the file's original name is the configured user list name, and the
\* original name otherwise, wherever the file lies in the tree.
C2_CopyNameByOriginalName ==
    \A i \in CopyCalls :
        LET original == TplNode(calls[i].file).name
        IN  calls[i].name =
              IF original = FullConfig.user_list_original_name
              THEN org \o FullConfig.user_list_suffix
              ELSE original

C2_Witness ==
    \E i \in CopyCalls :
        /\ calls[i].ok
        /\ TplNode(calls[i].file).name = FullConfig.user_list_original_name
        /\ TplNode(calls[i].file).parent # TemplateFolderId
        /\ \E j \in CopyCalls : TplNode(calls[j].file).name # FullConfig.user_list_original_name

\* C3: a failing remote call is the last remote call of the run, and the run
\* has then returned success = false with a non-empty error.
C3_FailFast ==
    \A i \in FailedCalls :
        /\ i = Len(calls)
        /\ pc = "done"
        /\ Len(results) = 1
        /\ ~LastResult.success
        /\ LastResult.error # <<>>

\* A copy fails while a sibling file and a sibling folder are still to come.
C3_Witness ==
    /\ FailedCalls # {}
    /\ calls[Len(calls)].op = "copy"
    /\ SubfolderCalls = {}
    /\ \E g \in TplFolders, h \in TplFiles :
         /\ TplNode(g).parent = TemplateFolderId
         /\ TplNode(h).parent = g

\* C4: the parent a copy-file or create-folder call names is the configured
\* destination folder or a folder an earlier create-folder call returned.
C4_ParentCreatedFirst ==
    \A i \in 1..Len(calls) :
        calls[i].op \in {"copy", "create"} =>
            \/ calls[i].parent = FullConfig.destination_folder_id
            \/ \E j \in 1..(i - 1) :
                 calls[j].op = "create" /\ calls[j].ok /\ calls[j].id = calls[i].parent

\* A file is copied into a created subfolder, a folder is created inside one.
C4_Witness ==
    /\ \E i \in CopyCalls : calls[i].parent \notin {main.id, FullConfig.destination_folder_id}
    /\ \E i \in SubfolderCalls : calls[i].parent \notin {main.id, FullConfig.destination_folder_id}

\* C5: a run fails on a missing setting only before its first remote call.
C5_ConfigFailureBeforeRemoteCalls ==
    \A r \in 1..Len(results) :
        (~results[r].success /\ \E k \in Keys : results[r].error = KeyError(k)) => calls = <<>>

\* C6: when listing the template folder fails with a permission error, the
\* result is a failure whose error holds the word "list" and the template
\* folder's identifier.
C6_ListErrorNamesFolder ==
    (/\ calls # <<>>
     /\ calls[Len(calls)].op = "list"
     /\ ~calls[Len(calls)].ok
     /\ calls[Len(calls)].folder = FullConfig.template_folder_id)
    => /\ results # <<>>
       /\ ~LastResult.success
       /\ Contains(LastResult.error, "list")
       /\ Contains(LastResult.error, ToString(FullConfig.template_folder_id))

\* C7: every create-folder call issued for a template subfolder uses the
\* subfolder's original name.
C7_FolderNamesUnchanged ==
    \A i \in SubfolderCalls : calls[i].name = TplNode(calls[i].item).name

C7_Witness ==
    \E i \in SubfolderCalls :
        /\ calls[i].ok
        /\ TplNode(calls[i].item).name = FullConfig.user_list_original_name

\* C8: two successful runs for the same organization leave two main folders
\* of the same name and different identifiers under the destination folder.
C8_RunsCreateDistinctFolders ==
    \A a, b \in 1..Len(results) :
        (a < b /\ results[a].success /\ results[b].success
           /\ results[a].folder_name = results[b].folder_name)
        => /\ results[a].folder_id # results[b].folder_id
           /\ \A r \in {a, b} :
                [ id |-> results[r].folder_id, name |-> results[r].folder_name,
                  mimeType |-> FOLDER_MIME,
                  parent |-> FullConfig.destination_folder_id ] \in drive

C8_Witness ==
    /\ Len(results) = 2
    /\ results[1].success /\ results[2].success
    /\ results[1].folder_name = results[2].folder_name
    /\ Len(tpl) > 0

\* The one result of a finished run: success exactly describes the main folder
\* after calls that all succeeded, failure carries an error.
ResultShape ==
    /\ Len(results) = 1
    /\ IF results[1].success
       THEN /\ FailedCalls = {}
            /\ calls # <<>>
            /\ calls[1].op = "create" /\ calls[1].id = results[1].folder_id
            /\ calls[1].name = results[1].folder_name
       ELSE /\ results[1].error # <<>>
            /\ FailedCalls \subseteq {Len(calls)}

\* C9: a run terminates and yields exactly one result.
C9_TerminatesWithOneResult ==
    (pc = "idle" /\ results = <<>>) ~> [](pc = "done" /\ ResultShape)

C9_Witness ==
    /\ pc = "done"
    /\ results[1].success
    /\ \E i \in CopyCalls : calls[i].parent # main.id

\* C10: after a run in which every remote call succeeded, every file of the
\* template that is not in the trash has been copied exactly once, into the
\* folder created for its parent.
C10_EveryFileCopiedOnce ==
    Succeeded =>
        \A f \in TplFiles :
            /\ Cardinality({i \in CopyCalls : calls[i].file = f}) = 1
            /\ \A i \in CopyCalls :
                 calls[i].file = f => DrivePath(calls[i].parent) = TplPath(TplNode(f).parent)

====
